---- MODULE Spec2Model ----
(***************************************************************************)
(* Image renamer: the per-photo pipeline of src/src/image-renamer.tsx      *)
(* (processImage), the batch worker pool (processAllImages), the embedded  *)
(* tag extraction of src/src/services/embeddedTagsService.ts and the       *)
(* detection call of src/src/services/peopleDetectionService.ts.           *)
(*                                                                         *)
(* JavaScript runs each task to completion, so one action of this module   *)
(* is one task: a user event handler, or the continuation that runs when   *)
(* an external call (metadata read, detection fetch, description fetch)    *)
(* settles, up to the next external call it awaits.                        *)
(*                                                                         *)
(* A JavaScript string is a sequence of one-character strings.             *)
(***************************************************************************)
EXTENDS Integers, Sequences, FiniteSets, TLC

(***************************************************************************)
(* Bounds of the model.                                                    *)
(***************************************************************************)
\* number of photos the user uploads where only Process All starts calls, or
\* where every file is an untagged one
MaxPhotos == 4
\* number of photos where the user also removes photos and clicks their Process
\* buttons, or uploads files of every kind
MaxUploads == 2
\* length of the names given to the name normalization on its own
MaxNameLen == 3
\* number of entries per tagging convention in the XMP texts given to the
\* extraction on its own
MaxTags == 1
\* number of comma-separated components of the Rectangle values given to it
MaxComponents == 5

(***************************************************************************)
(* Strings.                                                                *)
(***************************************************************************)
UpperCase == <<"A","B","C","D","E","F","G","H","I","J","K","L","M",
               "N","O","P","Q","R","S","T","U","V","W","X","Y","Z">>
LowerCase == <<"a","b","c","d","e","f","g","h","i","j","k","l","m",
               "n","o","p","q","r","s","t","u","v","w","x","y","z">>
Digits == {"0","1","2","3","4","5","6","7","8","9"}
WhiteSpace == {" "}

Range(s) == {s[i] : i \in DOMAIN s}

\* String.prototype.toLowerCase, one character
toLowerChar(c) ==
  IF \E i \in DOMAIN UpperCase : UpperCase[i] = c
  THEN LowerCase[CHOOSE i \in DOMAIN UpperCase : UpperCase[i] = c]
  ELSE c

\* String.prototype.toLowerCase
toLowerCase(s) == [i \in DOMAIN s |-> toLowerChar(s[i])]

\* s.replace(/\s+/g, '_'): every maximal run of white space becomes one "_"
RECURSIVE replaceWhiteSpace(_)
replaceWhiteSpace(s) ==
  IF s = <<>> THEN <<>>
  ELSE IF Head(s) \in WhiteSpace
       THEN IF Len(s) > 1 /\ s[2] \in WhiteSpace
            THEN replaceWhiteSpace(Tail(s))
            ELSE <<"_">> \o replaceWhiteSpace(Tail(s))
       ELSE <<Head(s)>> \o replaceWhiteSpace(Tail(s))

\* the character class [a-z0-9_]
IsNameChar(c) == c \in Range(LowerCase) \cup Digits \cup {"_"}

\* s.replace(/[^a-z0-9_]/g, '')
stripNonNameChars(s) == SelectSeq(s, IsNameChar)

\* the chain without the collapse of repeated underscores: a fault that C19
\* excludes
keepUnderscores(s) == s

\* s.replace(/_+/g, '_')
RECURSIVE collapseUnderscores(_)
collapseUnderscores(s) ==
  IF s = <<>> THEN <<>>
  ELSE IF Head(s) = "_" /\ Len(s) > 1 /\ s[2] = "_"
       THEN collapseUnderscores(Tail(s))
       ELSE <<Head(s)>> \o collapseUnderscores(Tail(s))

\* s.replace(/^_|_$/g, ''): one leading and one trailing underscore go
trimUnderscores(s) ==
  LET a == IF s # <<>> /\ Head(s) = "_" THEN Tail(s) ELSE s
  IN  IF a # <<>> /\ a[Len(a)] = "_" THEN SubSeq(a, 1, Len(a) - 1) ELSE a

\* String.prototype.trim
RECURSIVE trimLeft(_)
trimLeft(s) ==
  IF s # <<>> /\ Head(s) \in WhiteSpace THEN trimLeft(Tail(s)) ELSE s

RECURSIVE trimRight(_)
trimRight(s) ==
  IF s # <<>> /\ s[Len(s)] \in WhiteSpace
  THEN trimRight(SubSeq(s, 1, Len(s) - 1)) ELSE s

\* trim that leaves the white space at the end: a fault that C18 excludes
trimStart(s) == trimLeft(s)

trim(s) == trimRight(trimLeft(s))

\* Array.prototype.join over strings
RECURSIVE join(_, _)
join(parts, sep) ==
  IF parts = <<>> THEN <<>>
  ELSE IF Len(parts) = 1 THEN parts[1]
       ELSE parts[1] \o sep \o join(Tail(parts), sep)

\* String.prototype.lastIndexOf for a single character, 0-based, -1 if absent
lastIndexOf(s, c) ==
  IF \E i \in DOMAIN s : s[i] = c
  THEN (CHOOSE i \in DOMAIN s : s[i] = c /\ \A j \in DOMAIN s : s[j] = c => j <= i) - 1
  ELSE -1

\* originalName.split('.').pop(): the text after the last dot, all of it if none
lastDotSegment(s) == SubSeq(s, lastIndexOf(s, ".") + 2, Len(s))

\* does t occur in s as a contiguous substring
Contains(s, t) ==
  \E i \in 1..(Len(s) - Len(t) + 1) : SubSeq(s, i, i + Len(t) - 1) = t

(***************************************************************************)
(* Embedded tag extraction (embeddedTagsService.ts).                       *)
(*                                                                         *)
(* The XMP text is held by what the regular expressions of the parsers     *)
(* find in it: per convention, whether the container elements match and    *)
(* the list of region elements inside; per element, the text of each name  *)
(* field the parser looks for (<<>> when the field does not match).        *)
(***************************************************************************)
\* a person entry of the result
EmbeddedPerson(name, boundingBox, source) ==
  [name |-> name, boundingBox |-> boundingBox, source |-> source]

\* parseFloat gives NaN on a component that is no number
NumericComponents == {"0.1", "0.2", "0.3", "0.4"}
isNaN(c) == c \notin NumericComponents

\* extractMSBoundingBox without the test of the number of components: a fault
\* that C20 excludes
extractMSBoundingBoxAnyLength(region) ==
  LET coords == region.Rectangle
  IN  IF \A i \in DOMAIN coords : ~isNaN(coords[i]) THEN coords ELSE <<>>

\* the bounding box of a region, <<>> for undefined
extractMSBoundingBox(region) ==
  LET coords == region.Rectangle
  IN  IF coords = <<>> THEN <<>>
      ELSE IF Len(coords) = 4 /\ \A i \in 1..4 : ~isNaN(coords[i])
           THEN coords
           ELSE <<>>

\* the first name field that matches, trimmed; <<>> for null
extractMSPersonName(region) ==
  IF region.PersonDisplayName # <<>> THEN trim(region.PersonDisplayName)
  ELSE IF region.Name # <<>> THEN trim(region.Name)
  ELSE IF region.Person # <<>> THEN trim(region.Person)
  ELSE <<>>

RECURSIVE msRegionsToPeople(_)
msRegionsToPeople(regions) ==
  IF regions = <<>> THEN <<>>
  ELSE LET personName == extractMSPersonName(Head(regions))
           boundingBox == extractMSBoundingBox(Head(regions))
       IN  (IF personName # <<>>
            THEN <<EmbeddedPerson(personName, boundingBox, "windows_gallery")>>
            ELSE <<>>) \o msRegionsToPeople(Tail(regions))

parseMicrosoftPeopleTags(xmp) ==
  IF ~xmp.MP.matches THEN <<>> ELSE msRegionsToPeople(xmp.MP.regions)

RECURSIVE mwgRegionsToPeople(_)
mwgRegionsToPeople(regions) ==
  IF regions = <<>> THEN <<>>
  ELSE (IF Head(regions).Name # <<>>
        THEN <<EmbeddedPerson(trim(Head(regions).Name), <<>>, "adobe_bridge")>>
        ELSE <<>>) \o mwgRegionsToPeople(Tail(regions))

\* parseMWGRegions giving nothing when the Microsoft container is not found: a
\* fault that C21 excludes
parseMWGRegionsAfterMicrosoft(xmp) ==
  IF ~xmp.MP.matches \/ ~xmp.mwg.matches THEN <<>>
  ELSE mwgRegionsToPeople(xmp.mwg.regions)

parseMWGRegions(xmp) ==
  IF ~xmp.mwg.matches THEN <<>> ELSE mwgRegionsToPeople(xmp.mwg.regions)

\* one entry per PersonInImage element whose first text chunk matches
RECURSIVE iptcElementsToPeople(_)
iptcElementsToPeople(elements) ==
  IF elements = <<>> THEN <<>>
  ELSE (IF Head(elements).text # <<>>
        THEN <<EmbeddedPerson(trim(Head(elements).text), <<>>, "other_xmp")>>
        ELSE <<>>) \o iptcElementsToPeople(Tail(elements))

\* one entry per rdf:li of the first PersonInImage element
iptcBagToPeople(items) ==
  [i \in DOMAIN items |-> EmbeddedPerson(trim(items[i]), <<>>, "other_xmp")]

parseIPTCPersonTags(xmp) ==
  iptcElementsToPeople(xmp.iptc)
    \o (IF xmp.iptc # <<>> THEN iptcBagToPeople(Head(xmp.iptc).items) ELSE <<>>)

\* uniquePeople keeping the last entry of each name instead of the first: a
\* fault that C16 excludes
uniquePeopleKeepLast(people) ==
  LET keep == {i \in DOMAIN people :
                 \A j \in DOMAIN people :
                   toLowerCase(people[j].name) = toLowerCase(people[i].name) => j <= i}
      RECURSIVE pick(_)
      pick(i) ==
        IF i > Len(people) THEN <<>>
        ELSE (IF i \in keep THEN <<people[i]>> ELSE <<>>) \o pick(i + 1)
  IN  pick(1)

\* people.filter((person, index, self) => index === self.findIndex(same name, lower-cased))
uniquePeople(people) ==
  LET findIndex(i) ==
        CHOOSE k \in DOMAIN people :
          /\ toLowerCase(people[k].name) = toLowerCase(people[i].name)
          /\ \A j \in DOMAIN people :
               toLowerCase(people[j].name) = toLowerCase(people[i].name) => k <= j
      keep == {i \in DOMAIN people : findIndex(i) = i}
      RECURSIVE pick(_)
      pick(i) ==
        IF i > Len(people) THEN <<>>
        ELSE (IF i \in keep THEN <<people[i]>> ELSE <<>>) \o pick(i + 1)
  IN  pick(1)

parsePeopleFromXMP(xmp) ==
  uniquePeople(parseMicrosoftPeopleTags(xmp) \o parseMWGRegions(xmp)
                 \o parseIPTCPersonTags(xmp))

\* extractPeopleTags with hasEmbeddedTags set by the presence of XMP instead of
\* the number of people found: a fault that C14 excludes
extractPeopleTagsByXmp(imageFile) ==
  LET metadata == imageFile.metadata
  IN  IF metadata.parse = "object" /\ metadata.hasXmp
      THEN [people |-> parsePeopleFromXMP(metadata.xmp),
            hasEmbeddedTags |-> TRUE,
            software |-> metadata.Software]
      ELSE [people |-> <<>>, hasEmbeddedTags |-> FALSE, software |-> <<>>]

\* the result of the extraction: exifr.parse throws, gives nothing, or gives
\* an object with or without an xmp member
extractPeopleTags(imageFile) ==
  LET metadata == imageFile.metadata
      empty == [people |-> <<>>, hasEmbeddedTags |-> FALSE, software |-> <<>>]
  IN  IF metadata.parse = "throws" THEN empty
      ELSE IF metadata.parse = "nothing" THEN empty
      ELSE IF metadata.hasXmp
           THEN LET people == parsePeopleFromXMP(metadata.xmp)
                IN  [people |-> people,
                     hasEmbeddedTags |-> Len(people) > 0,
                     software |-> metadata.Software]
           ELSE [people |-> <<>>, hasEmbeddedTags |-> FALSE,
                 software |-> metadata.Software]

(***************************************************************************)
(* Detection and description calls.                                        *)
(*                                                                         *)
(* A response of fetch is [fetch, ok, json, ...]: fetch "rejects" on a     *)
(* network error, ok is response.ok, json is FALSE when response.json()    *)
(* throws.  A JavaScript value that should be an array of detections is    *)
(* [isArray, items]: an array of entries, or (isArray FALSE) a string of   *)
(* characters; both have a length.  An entry is [hasName, name,            *)
(* confidence]; hasName FALSE is an entry whose name is undefined.         *)
(***************************************************************************)
EmptyArray == [isArray |-> TRUE, items |-> <<>>]

\* detectPeopleInImage without the test of response.ok: a fault that C11 excludes
detectPeopleInImageUnchecked(response) ==
  IF response.fetch = "rejects" THEN EmptyArray
  ELSE IF ~response.json THEN EmptyArray
  ELSE IF ~response.hasDetectedPeople THEN EmptyArray
  ELSE response.detectedPeople

\* peopleDetectionService.detectPeopleInImage, from the response of /api/detect-people
detectPeopleInImage(response) ==
  IF response.fetch = "rejects" THEN EmptyArray
  ELSE IF ~response.ok THEN EmptyArray
  ELSE IF ~response.json THEN EmptyArray
  ELSE IF ~response.hasDetectedPeople THEN EmptyArray
  ELSE response.detectedPeople

\* the fallback name: processed_<Date.now()>.<extension of the original name>
fallbackName(originalName, now) ==
  LET segment == lastDotSegment(originalName)
      fallbackExtension == IF segment # <<>> THEN segment ELSE <<"j","p","e","g">>
  IN  <<"p","r","o","c","e","s","s","e","d","_">> \o now \o <<".">> \o fallbackExtension

\* generateDescriptiveName, from the response of /api/analyze-image
generateDescriptiveName(response, originalName, now) ==
  IF response.fetch = "rejects" THEN fallbackName(originalName, now)
  ELSE IF ~response.ok THEN fallbackName(originalName, now)
  ELSE IF ~response.json THEN fallbackName(originalName, now)
  ELSE IF response.suggestedName = <<>> THEN fallbackName(originalName, now)
  ELSE response.suggestedName

(***************************************************************************)
(* Inputs: the files the user may upload and the responses of the two      *)
(* services.  A File object is held by its key; FileOf gives its content.  *)
(***************************************************************************)
Mom == <<"M","o","m">>
Sarah == <<"S","a","r","a","h">>
PhotoDate == <<"2","0","2","4","_","0","3","_","1","5">>

NoContainer == [matches |-> FALSE, regions |-> <<>>]
MSRegion(displayName, rectangle) ==
  [PersonDisplayName |-> displayName, Name |-> <<>>, Person |-> <<>>,
   Rectangle |-> rectangle]

\* Mom tagged in Windows Photo Gallery and Sarah in an MWG region
TaggedXmp ==
  [MP |-> [matches |-> TRUE,
           regions |-> <<MSRegion(Mom, <<"0.1","0.2","0.3","0.4">>)>>],
   mwg |-> [matches |-> TRUE, regions |-> <<[Name |-> Sarah]>>],
   iptc |-> <<>>]

\* one tag whose name has no letter or digit
SymbolXmp ==
  [MP |-> NoContainer,
   mwg |-> [matches |-> TRUE, regions |-> <<[Name |-> <<"!","?">>]>>],
   iptc |-> <<>>]

NoXmp == [MP |-> NoContainer, mwg |-> NoContainer, iptc |-> <<>>]

Metadata(parse, hasXmp, xmp) ==
  [parse |-> parse, hasXmp |-> hasXmp, xmp |-> xmp, Software |-> <<>>]

File(key, name, isAlreadyRenamed, metadata) ==
  [key |-> key, name |-> name, isAlreadyRenamed |-> isAlreadyRenamed,
   photoDate |-> PhotoDate, metadata |-> metadata]

TaggedFile ==
  File("tagged", <<"a",".","j","p","g">>, FALSE, Metadata("object", TRUE, TaggedXmp))
SymbolFile ==
  File("symbol", <<"b",".","j","p","g">>, FALSE, Metadata("object", TRUE, SymbolXmp))
PlainFile ==
  File("plain", <<"c",".","p","n","g">>, FALSE, Metadata("nothing", FALSE, NoXmp))
UnreadableFile ==
  File("unreadable", <<"u",".","p","n","g">>, FALSE, Metadata("throws", FALSE, NoXmp))
RenamedFile ==
  File("renamed", <<"d","_","e","_","c","a","t",".","j","p","g">>, TRUE,
       Metadata("nothing", FALSE, NoXmp))

\* metadata without an XMP block, and an XMP block without any of the three
\* conventions
NoXmpFile ==
  File("noxmp", <<"n",".","p","n","g">>, FALSE, Metadata("object", FALSE, NoXmp))
ForeignXmpFile ==
  File("foreign", <<"f",".","p","n","g">>, FALSE, Metadata("object", TRUE, NoXmp))

Files == {TaggedFile, SymbolFile, PlainFile, UnreadableFile, RenamedFile,
          NoXmpFile, ForeignXmpFile}

FileOf(key) == CHOOSE file \in Files : file.key = key

Detection(name, confidence) ==
  [hasName |-> TRUE, name |-> name, confidence |-> confidence]
NamelessDetection(confidence) ==
  [hasName |-> FALSE, name |-> <<>>, confidence |-> confidence]

DetectResponse(fetch, ok, json, hasDetectedPeople, detectedPeople) ==
  [fetch |-> fetch, ok |-> ok, json |-> json,
   hasDetectedPeople |-> hasDetectedPeople, detectedPeople |-> detectedPeople]

\* three people, a low-confidence one in the middle
ThreeDetected ==
  [isArray |-> TRUE,
   items |-> << Detection(<<"A","n","n">>, "high"),
                Detection(<<"B","o","b">>, "low"),
                Detection(<<"C","y"," ","D">>, "medium") >>]

NoneDetected == DetectResponse("resolves", TRUE, TRUE, TRUE, EmptyArray)

WellFormedDetectResponses ==
  { DetectResponse("rejects", FALSE, FALSE, FALSE, EmptyArray),
    DetectResponse("resolves", FALSE, FALSE, FALSE, EmptyArray),
    DetectResponse("resolves", TRUE, FALSE, FALSE, EmptyArray),
    DetectResponse("resolves", TRUE, TRUE, FALSE, EmptyArray),
    NoneDetected,
    DetectResponse("resolves", TRUE, TRUE, TRUE, ThreeDetected) }

\* a 200 response whose detectedPeople is a string
StringDetected ==
  DetectResponse("resolves", TRUE, TRUE, TRUE,
                 [isArray |-> FALSE, items |-> <<"n","o">>])

\* a 200 response whose detectedPeople holds an entry without a name
NamelessDetected ==
  DetectResponse("resolves", TRUE, TRUE, TRUE,
                 [isArray |-> TRUE, items |-> <<NamelessDetection("high")>>])

MalformedDetectResponses == {StringDetected, NamelessDetected}

\* a non-2xx response whose body names people
ErrorWithPeople == DetectResponse("resolves", FALSE, TRUE, TRUE, ThreeDetected)

\* a 200 response that names a person with an apostrophe and upper case
PunctuatedDetected ==
  DetectResponse("resolves", TRUE, TRUE, TRUE,
                 [isArray |-> TRUE,
                  items |-> <<Detection(<<"O","'","N","e","i","l">>, "high")>>])

DetectResponses ==
  WellFormedDetectResponses \cup MalformedDetectResponses
    \cup {ErrorWithPeople, PunctuatedDetected}

DescribeResponse(fetch, ok, json, suggestedName) ==
  [fetch |-> fetch, ok |-> ok, json |-> json, suggestedName |-> suggestedName]

Described ==
  DescribeResponse("resolves", TRUE, TRUE, <<"c","a","k","e",".","j","p","g">>)

DescribeResponses ==
  { DescribeResponse("rejects", FALSE, FALSE, <<>>),
    DescribeResponse("resolves", FALSE, FALSE, <<>>),
    DescribeResponse("resolves", TRUE, FALSE, <<>>),
    DescribeResponse("resolves", TRUE, TRUE, <<>>),
    Described }

\* the values of Date.now()
Timestamps == {<<"1","7">>}

\* the sequences over S of length at most n
SeqUpTo(S, n) == UNION {[1..k -> S] : k \in 0..n}

\* names given to the normalization on its own: an upper-case letter, a
\* lower-case letter, a digit, white space, an underscore, a symbol
NameAlphabet == {"A", "b", "7", " ", "_", "!"}
Names == SeqUpTo(NameAlphabet, MaxNameLen)

\* names of the tags of the XMP texts given to the extraction on its own:
\* two that differ in case, one that differs by a symbol, one of a symbol and
\* a trailing space
Al == <<"A","l">>
TagNames == {Al, <<"a","l">>, <<"a","l","!">>, <<"!"," ">>}

\* people names and descriptions given to STEP 4 on its own: no name, one,
\* two; a description with an extension, without one, with two dots
ResolvedNames ==
  { <<>>, << <<"m","o","m">> >>, << <<"m","o","m">>, <<"s","a","r","a","h">> >> }
Descriptions ==
  { <<"c","a","k","e",".","j","p","g">>, <<"c","a","k","e">>,
    <<"a",".","b",".","p","n","g">> }

\* Rectangle values: the components of split(','), numeric or not
ValidRectangle == <<"0.1","0.2","0.3","0.4">>
Rectangles == SeqUpTo({"0.1", "x"}, MaxComponents) \ {<<>>}

\* XMP texts with up to MaxTags entries per convention
MSRegions == {MSRegion(n, ValidRectangle) : n \in TagNames}
TagXmps ==
  { [MP |-> [matches |-> TRUE, regions |-> ms],
     mwg |-> [matches |-> TRUE, regions |-> mw],
     iptc |-> ip] :
      ms \in SeqUpTo(MSRegions, MaxTags),
      mw \in SeqUpTo({[Name |-> n] : n \in TagNames}, MaxTags),
      ip \in {<<>>} \cup
               { <<[text |-> t, items |-> it]>> :
                   t \in TagNames \cup {<<>>}, it \in SeqUpTo(TagNames, MaxTags) } }

\* XMP texts with one Microsoft region, named, with every Rectangle value
RectangleXmps ==
  { [MP |-> [matches |-> TRUE, regions |-> <<MSRegion(Al, r)>>],
     mwg |-> NoContainer, iptc |-> <<>>] : r \in Rectangles }

\* XMP texts where the container of each convention is absent, malformed (the
\* tags are in the text but the expressions of the parser do not match) or
\* well formed with one tag
ContainerXmps ==
  { [MP |-> mp, mwg |-> mw, iptc |-> ip] :
      mp \in { NoContainer,
               [matches |-> FALSE, regions |-> <<MSRegion(Al, ValidRectangle)>>],
               [matches |-> TRUE, regions |-> <<MSRegion(Al, ValidRectangle)>>] },
      mw \in { NoContainer,
               [matches |-> FALSE, regions |-> <<[Name |-> <<"a","l","!">>]>>],
               [matches |-> TRUE, regions |-> <<[Name |-> <<"a","l","!">>]>>] },
      ip \in { <<>>,
               <<[text |-> <<>>, items |-> <<>>]>>,
               <<[text |-> <<"!"," ">>, items |-> <<>>]>> } }

\* what exifr.parse gives for the files given to the extraction on its own
ProbeMetadata ==
  { Metadata("object", TRUE, xmp) :
      xmp \in TagXmps \cup RectangleXmps \cup ContainerXmps }
    \cup { Metadata("throws", FALSE, NoXmp), Metadata("nothing", FALSE, NoXmp),
           Metadata("object", FALSE, NoXmp) }

(***************************************************************************)
(* The photo store (the images state of the component) and processImage.   *)
(*                                                                         *)
(* An optional field of ImageState that is not set yet holds the falsy     *)
(* value of its type (FALSE, <<>>, the empty array).                       *)
(***************************************************************************)
\* the object built by reader.onload in handleFileUpload
newImage(id, file) ==
  [id |-> id,
   originalFile |-> file.key,
   originalName |-> file.name,
   suggestedName |-> <<>>,
   processing |-> FALSE,
   processed |-> FALSE,
   photoDate |-> file.photoDate,
   isAlreadyRenamed |-> file.isAlreadyRenamed,
   embeddedPeople |-> <<>>,
   hasEmbeddedTags |-> FALSE,
   tagProcessing |-> FALSE,
   taggingSoftware |-> <<>>,
   detectedPeople |-> EmptyArray,
   peopleProcessing |-> FALSE]

\* { ...img, ...patch }
Merge(img, patch) ==
  [f \in DOMAIN img |-> IF f \in DOMAIN patch THEN patch[f] ELSE img[f]]

\* setImage adding a record when none has the id: a fault that C26 excludes
setImageOrAdd(imgs, imageId, patch) ==
  IF \E i \in DOMAIN imgs : imgs[i].id = imageId
  THEN [i \in DOMAIN imgs |->
          IF imgs[i].id = imageId THEN Merge(imgs[i], patch) ELSE imgs[i]]
  ELSE Append(imgs, Merge(newImage(imageId, PlainFile), patch))

\* setImages(prev => prev.map(img => img.id === imageId ? { ...img, ...patch } : img))
setImage(imgs, imageId, patch) ==
  [i \in DOMAIN imgs |->
     IF imgs[i].id = imageId THEN Merge(imgs[i], patch) ELSE imgs[i]]

\* images.find(img => img.id === imageId) succeeds
found(imgs, imageId) == \E i \in DOMAIN imgs : imgs[i].id = imageId
find(imgs, imageId) == imgs[CHOOSE i \in DOMAIN imgs : imgs[i].id = imageId]

\* what processImage reads of the images it captured: the fields that are
\* set at upload and never change
captured(imgs) ==
  [i \in DOMAIN imgs |->
     [id |-> imgs[i].id,
      originalFile |-> imgs[i].originalFile,
      originalName |-> imgs[i].originalName,
      photoDate |-> imgs[i].photoDate,
      isAlreadyRenamed |-> imgs[i].isAlreadyRenamed]]

\* the normalization of an embedded name (STEP 4, embedded branch)
normalizeEmbeddedName(name) ==
  trimUnderscores(collapseUnderscores(stripNonNameChars(
    replaceWhiteSpace(toLowerCase(name)))))

\* embeddedPeople.map(normalize).filter(name => name.length > 0)
embeddedPeopleNames(embeddedPeople) ==
  SelectSeq([i \in DOMAIN embeddedPeople |->
               normalizeEmbeddedName(embeddedPeople[i].name)],
            LAMBDA name : Len(name) > 0)

\* isConfident without the filter on confidence: a fault that C3 excludes
isAnyConfidence(person) == person.confidence \in {"high", "medium", "low"}

\* person.confidence === 'high' || person.confidence === 'medium'
isConfident(person) == person.confidence = "high" \/ person.confidence = "medium"

\* the name token of a detected person
detectedName(person) == replaceWhiteSpace(toLowerCase(person.name))

\* detectedPeople.filter(isConfident).map(detectedName): [threw, names].
\* A value without a filter method, or a kept entry whose name is undefined,
\* raises a TypeError.
detectedPeopleNames(detectedPeople) ==
  IF ~detectedPeople.isArray THEN [threw |-> TRUE, names |-> <<>>]
  ELSE LET kept == SelectSeq(detectedPeople.items, isConfident)
       IN  IF \E i \in DOMAIN kept : ~kept[i].hasName
           THEN [threw |-> TRUE, names |-> <<>>]
           ELSE [threw |-> FALSE,
                 names |-> [i \in DOMAIN kept |-> detectedName(kept[i])]]

\* the people names of STEP 4: [threw, names]
peopleNamesOf(embeddedPeople, detectedPeople) ==
  IF Len(embeddedPeople) > 0
  THEN [threw |-> FALSE, names |-> embeddedPeopleNames(embeddedPeople)]
  ELSE IF Len(detectedPeople.items) > 0
       THEN detectedPeopleNames(detectedPeople)
       ELSE [threw |-> FALSE, names |-> <<>>]

\* buildFilename with the people names joined by the separator of the parts: a
\* fault that C25 excludes
buildFilenameOneSeparator(photoDate, peopleNames, suggestedName) ==
  IF suggestedName = <<>> THEN suggestedName
  ELSE
    LET lastDotIndex == lastIndexOf(suggestedName, ".")
        nameWithoutExt == IF lastDotIndex > -1
                          THEN SubSeq(suggestedName, 1, lastDotIndex)
                          ELSE suggestedName
        extension == IF lastDotIndex > -1
                     THEN SubSeq(suggestedName, lastDotIndex + 1, Len(suggestedName))
                     ELSE <<>>
        parts == (IF photoDate # <<>> THEN <<photoDate>> ELSE <<>>)
                   \o (IF Len(peopleNames) > 0
                       THEN <<join(peopleNames, <<"_">>)>>
                       ELSE <<>>)
                   \o <<nameWithoutExt>>
    IN  join(parts, <<"_">>) \o extension

\* STEP 4: the final filename from the date, the people names and the description
buildFilename(photoDate, peopleNames, suggestedName) ==
  IF suggestedName = <<>> THEN suggestedName
  ELSE
    LET lastDotIndex == lastIndexOf(suggestedName, ".")
        nameWithoutExt == IF lastDotIndex > -1
                          THEN SubSeq(suggestedName, 1, lastDotIndex)
                          ELSE suggestedName
        extension == IF lastDotIndex > -1
                     THEN SubSeq(suggestedName, lastDotIndex + 1, Len(suggestedName))
                     ELSE <<>>
        parts == (IF photoDate # <<>> THEN <<photoDate>> ELSE <<>>)
                   \o (IF Len(peopleNames) > 0
                       THEN <<join(peopleNames, <<"_","a","n","d","_">>)>>
                       ELSE <<>>)
                   \o <<nameWithoutExt>>
    IN  join(parts, <<"_">>) \o extension

\* one call of processImage: the photo it captured, where it is suspended
\* (pc), its local variables, whether it got past STEP 1 (extracted) and how
\* often it called the detection service; as history, whether the detection
\* call failed (network error or non-2xx response), whether the
\* description call gave no name, and whether the photo was gone from the
\* store when the call came to publish its filename
NoRun ==
  [pc |-> "none", imageId |-> 0, originalFile |-> "", originalName |-> <<>>,
   photoDate |-> <<>>, extracted |-> FALSE, embeddedPeople |-> <<>>,
   detectedPeople |-> EmptyArray, detectCalls |-> 0,
   detectFailed |-> FALSE, describeFailed |-> FALSE, gone |-> FALSE]

\* processImageStart without the skip of a photo that is already renamed: a
\* fault that C15 excludes
processImageStartNoSkip(imgs, photos, imageId) ==
  IF ~found(photos, imageId)
  THEN [images |-> imgs,
        run |-> [NoRun EXCEPT !.pc = "returned", !.imageId = imageId],
        suggestedName |-> <<>>]
  ELSE
    LET image == find(photos, imageId)
    IN  [images |-> setImage(setImage(imgs, imageId, [processing |-> TRUE]),
                             imageId, [tagProcessing |-> TRUE]),
         run |-> [NoRun EXCEPT !.imageId = imageId,
                               !.originalFile = image.originalFile,
                               !.originalName = image.originalName,
                               !.photoDate = image.photoDate,
                               !.pc = "extract"],
         suggestedName |-> <<>>]

\* the part of processImage up to its first await, with photos the images
\* the call captured: [images, run, suggestedName]
processImageStart(imgs, photos, imageId) ==
  IF ~found(photos, imageId)
  THEN [images |-> imgs,
        run |-> [NoRun EXCEPT !.pc = "returned", !.imageId = imageId],
        suggestedName |-> <<>>]
  ELSE
    LET image == find(photos, imageId)
        run == [NoRun EXCEPT !.imageId = imageId,
                             !.originalFile = image.originalFile,
                             !.originalName = image.originalName,
                             !.photoDate = image.photoDate]
    IN  IF image.isAlreadyRenamed
        THEN [images |-> setImage(imgs, imageId,
                           [suggestedName |-> image.originalName,
                            processing |-> FALSE, processed |-> TRUE]),
              run |-> [run EXCEPT !.pc = "returned"],
              suggestedName |-> image.originalName]
        ELSE [images |-> setImage(setImage(imgs, imageId, [processing |-> TRUE]),
                                  imageId, [tagProcessing |-> TRUE]),
              run |-> [run EXCEPT !.pc = "extract"],
              suggestedName |-> <<>>]

\* needsDetection on the names that reach the filename instead of the
\* extracted list: a fault that C1 excludes
needsDetectionOnNames(embeddedPeople) == Len(embeddedPeopleNames(embeddedPeople)) = 0

\* whether STEP 2 calls the detection service
needsDetection(embeddedPeople) == Len(embeddedPeople) = 0

\* processImageAfterExtract leaving tagProcessing set once the extraction has
\* returned: a fault that C24 excludes
processImageAfterExtractKeepsFlag(imgs, run) ==
  LET tagResult == extractPeopleTags(FileOf(run.originalFile))
      published == setImage(imgs, run.imageId,
                     [embeddedPeople |-> tagResult.people,
                      hasEmbeddedTags |-> tagResult.hasEmbeddedTags,
                      taggingSoftware |-> tagResult.software])
  IN  IF needsDetection(tagResult.people)
      THEN [images |-> setImage(published, run.imageId, [peopleProcessing |-> TRUE]),
            run |-> [run EXCEPT !.embeddedPeople = tagResult.people,
                                !.extracted = TRUE,
                                !.pc = "detect",
                                !.detectCalls = @ + 1]]
      ELSE [images |-> published,
            run |-> [run EXCEPT !.embeddedPeople = tagResult.people,
                                !.extracted = TRUE,
                                !.pc = "describe"]]

\* processImageAfterExtract starting the next call before it publishes the
\* extraction result: a fault that C23 excludes
processImageAfterExtractUnpublished(imgs, run) ==
  LET embeddedPeople == extractPeopleTags(FileOf(run.originalFile)).people
  IN  IF needsDetection(embeddedPeople)
      THEN [images |-> setImage(imgs, run.imageId, [peopleProcessing |-> TRUE]),
            run |-> [run EXCEPT !.embeddedPeople = embeddedPeople,
                                !.extracted = TRUE,
                                !.pc = "detect",
                                !.detectCalls = @ + 1]]
      ELSE [images |-> imgs,
            run |-> [run EXCEPT !.embeddedPeople = embeddedPeople,
                                !.extracted = TRUE,
                                !.pc = "describe"]]

\* processImageAfterExtract going on to the description whatever the extraction
\* found: a fault that C22 excludes
processImageAfterExtractNoDetect(imgs, run) ==
  LET tagResult == extractPeopleTags(FileOf(run.originalFile))
  IN  [images |-> setImage(imgs, run.imageId,
                    [embeddedPeople |-> tagResult.people,
                     hasEmbeddedTags |-> tagResult.hasEmbeddedTags,
                     taggingSoftware |-> tagResult.software,
                     tagProcessing |-> FALSE]),
       run |-> [run EXCEPT !.embeddedPeople = tagResult.people,
                           !.extracted = TRUE,
                           !.pc = "describe"]]

\* from the return of extractPeopleTags to the next await: [images, run]
processImageAfterExtract(imgs, run) ==
  LET tagResult == extractPeopleTags(FileOf(run.originalFile))
      embeddedPeople == tagResult.people
      published == setImage(imgs, run.imageId,
                     [embeddedPeople |-> embeddedPeople,
                      hasEmbeddedTags |-> tagResult.hasEmbeddedTags,
                      taggingSoftware |-> tagResult.software,
                      tagProcessing |-> FALSE])
  IN  IF needsDetection(embeddedPeople)
      THEN [images |-> setImage(published, run.imageId, [peopleProcessing |-> TRUE]),
            run |-> [run EXCEPT !.embeddedPeople = embeddedPeople,
                                !.extracted = TRUE,
                                !.pc = "detect",
                                !.detectCalls = @ + 1]]
      ELSE [images |-> published,
            run |-> [run EXCEPT !.embeddedPeople = embeddedPeople,
                                !.extracted = TRUE,
                                !.pc = "describe"]]

\* processImageAfterDetect with a second call of the detection service when
\* the first found nobody: a fault that C2 excludes
processImageAfterDetectRetry(imgs, run, response) ==
  LET detectedPeople == detectPeopleInImage(response)
      retry == Len(detectedPeople.items) = 0 /\ run.detectCalls < 2
  IN  [images |-> setImage(imgs, run.imageId,
                    [detectedPeople |-> detectedPeople,
                     peopleProcessing |-> retry]),
       run |-> [run EXCEPT !.detectedPeople = detectedPeople,
                           !.pc = IF retry THEN "detect" ELSE "describe",
                           !.detectCalls = IF retry THEN @ + 1 ELSE @]]

\* from the return of detectPeopleInImage to the next await: [images, run].
\* The log line that maps over the detections may throw; the catch
\* around STEP 2 clears peopleProcessing either way.
processImageAfterDetect(imgs, run, response) ==
  LET detectedPeople == detectPeopleInImage(response)
  IN  [images |-> setImage(imgs, run.imageId,
                    [detectedPeople |-> detectedPeople, peopleProcessing |-> FALSE]),
       run |-> [run EXCEPT !.detectedPeople = detectedPeople, !.pc = "describe",
                           !.detectFailed = (response.fetch = "rejects" \/ ~response.ok)]]

\* the description call fails: network error, non-2xx response, a body that is
\* not JSON, or no suggestedName in it
describeFails(response) ==
  \/ response.fetch = "rejects"
  \/ ~response.ok
  \/ ~response.json
  \/ response.suggestedName = <<>>

\* from the return of generateDescriptiveName to the end of processImage:
\* [images, run, peopleNames, suggestedName]; pc "threw" when an error leaves
\* processImage
processImageAfterDescribe(imgs, run, response, now) ==
  LET described == generateDescriptiveName(response, run.originalName, now)
      people == IF described = <<>> THEN [threw |-> FALSE, names |-> <<>>]
                ELSE peopleNamesOf(run.embeddedPeople, run.detectedPeople)
  IN  IF people.threw
      THEN [images |-> imgs,
            run |-> [run EXCEPT !.pc = "threw",
                                !.describeFailed = describeFails(response),
                                !.gone = ~found(imgs, run.imageId)],
            peopleNames |-> <<>>, suggestedName |-> <<>>]
      ELSE LET suggestedName == buildFilename(run.photoDate, people.names, described)
           IN  [images |-> setImage(imgs, run.imageId,
                              [suggestedName |-> suggestedName,
                               processing |-> FALSE, processed |-> TRUE]),
                run |-> [run EXCEPT !.pc = "returned",
                                    !.describeFailed = describeFails(response),
                                    !.gone = ~found(imgs, run.imageId)],
                peopleNames |-> people.names,
                suggestedName |-> suggestedName]

(***************************************************************************)
(* State.                                                                  *)
(***************************************************************************)
VARIABLES
  images,      \* the photo store: the images state of the component
  processing,  \* the batch flag: the processing state of the component
  nextId,      \* the id the next uploaded photo gets
  manual,      \* the calls of processImage made by the Process buttons, by photo id
  batch,       \* the call of processAllImages: "none", "pending", "resolved", "rejected"
  closure,     \* the images that call of processAllImages captured
  ids,         \* its ids
  index,       \* its index cursor
  workers,     \* its worker promises, each with the call of processImage it awaits
  claims,      \* history: how often a worker of that call claimed each of its ids
  returned,    \* history: the last call of processImage that returned
  probe,       \* a call of a function of the services on its own: input and result
  editingIndex, \* the index of the card whose name is being edited, or null
  editingName, \* the text of the edit field
  editingId    \* history: the id of the photo startEditing was called for

vars == <<images, processing, nextId, manual, batch, closure, ids, index,
          workers, claims, returned, probe, editingIndex, editingName, editingId>>

editVars == <<editingIndex, editingName, editingId>>

\* useState<number | null>(null): no card is being edited
null == -1

CONCURRENCY_LIMIT == 3

Min(a, b) == IF a < b THEN a ELSE b

\* the history entry of a call of processImage that returned
Returned(run, peopleNames, suggestedName) ==
  [imageId |-> run.imageId,
   originalFile |-> run.originalFile,
   extracted |-> run.extracted,
   embeddedPeople |-> run.embeddedPeople,
   detectedPeople |-> run.detectedPeople,
   detectCalls |-> run.detectCalls,
   detectFailed |-> run.detectFailed,
   describeFailed |-> run.describeFailed,
   gone |-> run.gone,
   peopleNames |-> peopleNames,
   suggestedName |-> suggestedName]

(***************************************************************************)
(* The worker pool of processAllImages.  The state a worker's task reads   *)
(* and writes is threaded as st = [images, index, claims, returned].       *)
(***************************************************************************)
\* claim moving the cursor by two: a fault that C4 excludes
claimSkip(st) == [st EXCEPT !.index = @ + 2]

\* index++
claim(st) == [st EXCEPT !.index = @ + 1]

\* the loop of one worker, from a claim up to its next await on an
\* external call, or to its end: [st, worker]
RECURSIVE workerLoop(_, _, _)
workerLoop(st, photos, idList) ==
  LET i == st.index
      claimed == claim(st)
  IN  IF i >= Len(idList)
      THEN [st |-> claimed, worker |-> [status |-> "ended", run |-> NoRun]]
      ELSE
        LET imageId == idList[i + 1]
            started == processImageStart(st.images, photos, imageId)
            next == [claimed EXCEPT
                       !.images = started.images,
                       !.claims = [@ EXCEPT ![imageId] = @ + 1]]
        IN  IF started.run.pc = "returned"
            THEN workerLoop([next EXCEPT !.returned =
                               Returned(started.run, <<>>, started.suggestedName)],
                            photos, idList)
            ELSE [st |-> next, worker |-> [status |-> "running", run |-> started.run]]

\* one worker per id: a fault that C8 excludes
oneWorkerPerId(idList) == Len(idList)

\* the number of workers processAllImages creates
numberOfWorkers(idList) == Min(CONCURRENCY_LIMIT, Len(idList))

\* new Array(n).fill(0).map(async () => ...): the workers start one after
\* the other, each running to its first await: [st, workers]
RECURSIVE spawnWorkers(_, _, _, _)
spawnWorkers(st, photos, idList, n) ==
  IF n = 0 THEN [st |-> st, workers |-> <<>>]
  ELSE LET first == workerLoop(st, photos, idList)
           rest == spawnWorkers(first.st, photos, idList, n - 1)
       IN  [st |-> rest.st, workers |-> <<first.worker>> \o rest.workers]

\* Promise.all resolving with the first worker that ends: a fault that C7
\* excludes
promiseAny(ws) ==
  IF \E w \in DOMAIN ws : ws[w].status = "rejected" THEN "rejected"
  ELSE IF \E w \in DOMAIN ws : ws[w].status = "ended" THEN "resolved"
  ELSE "pending"

\* await Promise.all(workers) in processAllImages
promiseAll(ws) ==
  IF \E w \in DOMAIN ws : ws[w].status = "rejected" THEN "rejected"
  ELSE IF \A w \in DOMAIN ws : ws[w].status = "ended" THEN "resolved"
  ELSE "pending"

\* the ids of all photos, processed or not: a fault that C29 excludes
allIds(imgs) == [i \in DOMAIN imgs |-> imgs[i].id]

\* images.filter((img) => !img.processed).map((img) => img.id)
unprocessedIds(imgs) ==
  LET unprocessed == SelectSeq(imgs, LAMBDA img : ~img.processed)
  IN  [i \in DOMAIN unprocessed |-> unprocessed[i].id]

(***************************************************************************)
(* Initial state and actions.                                              *)
(***************************************************************************)
InitApp ==
  /\ images = <<>>
  /\ processing = FALSE
  /\ nextId = 1
  /\ manual = <<>>
  /\ batch = "none"
  /\ closure = <<>>
  /\ ids = <<>>
  /\ index = 0
  /\ workers = <<>>
  /\ claims = <<>>
  /\ returned = Returned(NoRun, <<>>, <<>>)
  /\ editingIndex = null
  /\ editingName = <<>>
  /\ editingId = 0

\* a call of a function of the services on its own: the name given to the
\* normalization or the metadata of the file given to the extraction, and,
\* once the call is done, the extraction result and the names for the filename
Probe(kind, name, metadata) ==
  [kind |-> kind, name |-> name, metadata |-> metadata, done |-> FALSE,
   result |-> [people |-> <<>>, hasEmbeddedTags |-> FALSE, software |-> <<>>],
   names |-> <<>>,
   photoDate |-> <<>>, peopleNames |-> <<>>, suggestedName |-> <<>>]

\* STEP 4 on its own: the date of the photo, the people names and the name the
\* description service gave; suggestedName holds the filename once it is built
FilenameProbe(photoDate, peopleNames, suggestedName) ==
  [Probe("filename", <<>>, Metadata("nothing", FALSE, NoXmp)) EXCEPT
     !.photoDate = photoDate, !.peopleNames = peopleNames,
     !.name = suggestedName]
NoProbe == Probe("none", <<>>, Metadata("nothing", FALSE, NoXmp))
Probes ==
  {Probe("name", name, Metadata("nothing", FALSE, NoXmp)) : name \in Names}
    \cup {Probe("file", <<>>, metadata) : metadata \in ProbeMetadata}
    \cup {FilenameProbe(photoDate, peopleNames, suggestedName) :
            photoDate \in {<<>>, PhotoDate},
            peopleNames \in ResolvedNames,
            suggestedName \in Descriptions}

\* no function of the services is called on its own
Init == InitApp /\ probe = NoProbe

\* a name or a file is given to a function of the services on its own
InitProbe == InitApp /\ probe \in Probes

batchVars == <<processing, batch, closure, ids, index, workers, claims>>

\* the ids of the photos on display
shown == {images[i].id : i \in DOMAIN images}

\* handleFileUpload, for one file: reader.onload appends the new photo
Upload(file, limit) ==
  /\ nextId <= limit
  /\ images' = Append(images, newImage(nextId, file))
  /\ nextId' = nextId + 1
  /\ UNCHANGED <<manual, returned, probe>>
  /\ UNCHANGED editVars
  /\ UNCHANGED batchVars

\* removeImage
RemoveImage(imageId) ==
  /\ found(images, imageId)
  /\ images' = SelectSeq(images, LAMBDA img : img.id # imageId)
  /\ UNCHANGED <<nextId, manual, returned, probe>>
  /\ UNCHANGED editVars
  /\ UNCHANGED batchVars

\* the Process button of a photo, shown while it is neither processed nor
\* processing: processImage(image.id) up to its first await
ClickProcess(imageId) ==
  /\ found(images, imageId)
  /\ ~find(images, imageId).processed
  /\ ~find(images, imageId).processing
  /\ \E started \in {processImageStart(images, captured(images), imageId)} :
       /\ images' = started.images
       /\ IF started.run.pc = "returned"
          THEN /\ returned' = Returned(started.run, <<>>, started.suggestedName)
               /\ manual' = manual
          ELSE /\ manual' = [id \in DOMAIN manual \cup {imageId} |->
                               IF id = imageId THEN started.run ELSE manual[id]]
               /\ returned' = returned
  /\ UNCHANGED <<nextId, probe>>
  /\ UNCHANGED editVars
  /\ UNCHANGED batchVars

\* a call made by a Process button has not settled
manualPending == \E id \in DOMAIN manual : manual[id].pc # "threw"

\* the metadata read of a Process-button call settles
ManualExtractReturn(imageId) ==
  /\ imageId \in DOMAIN manual
  /\ manual[imageId].pc = "extract"
  /\ \E r \in {processImageAfterExtract(images, manual[imageId])} :
       /\ images' = r.images
       /\ manual' = [manual EXCEPT ![imageId] = r.run]
  /\ UNCHANGED <<nextId, returned, probe>>
  /\ UNCHANGED editVars
  /\ UNCHANGED batchVars

\* the detection call of a Process-button call settles
ManualDetectReturn(imageId, response) ==
  /\ imageId \in DOMAIN manual
  /\ manual[imageId].pc = "detect"
  /\ \E r \in {processImageAfterDetect(images, manual[imageId], response)} :
       /\ images' = r.images
       /\ manual' = [manual EXCEPT ![imageId] = r.run]
  /\ UNCHANGED <<nextId, returned, probe>>
  /\ UNCHANGED editVars
  /\ UNCHANGED batchVars

\* the description call of a Process-button call settles: the call returns,
\* or throws and stays as a rejected promise
ManualDescribeReturn(imageId, response, now) ==
  /\ imageId \in DOMAIN manual
  /\ manual[imageId].pc = "describe"
  /\ \E r \in {processImageAfterDescribe(images, manual[imageId], response, now)} :
       /\ images' = r.images
       /\ IF r.run.pc = "threw"
          THEN /\ manual' = [manual EXCEPT ![imageId] = r.run]
               /\ returned' = returned
          ELSE /\ manual' = [id \in DOMAIN manual \ {imageId} |-> manual[id]]
               /\ returned' = Returned(r.run, r.peopleNames, r.suggestedName)
  /\ UNCHANGED <<nextId, probe>>
  /\ UNCHANGED editVars
  /\ UNCHANGED batchVars

\* the Process All button disabled only when every photo is processed: a
\* fault that C30 excludes
processAllDisabledWhenDone(flag, imgs) == \A i \in DOMAIN imgs : imgs[i].processed

\* disabled={processing || images.every(img => img.processed)}
processAllDisabled(flag, imgs) == flag \/ \A i \in DOMAIN imgs : imgs[i].processed

\* the Process All button, shown when there are photos: processAllImages up
\* to await Promise.all(workers), and past it when no worker had to wait
ClickProcessAll ==
  /\ Len(images) > 0
  /\ ~processAllDisabled(processing, images)
  /\ \E idList \in {unprocessedIds(images)} :
       \E spawned \in {spawnWorkers([images |-> images, index |-> 0,
                                     claims |-> [i \in Range(idList) |-> 0],
                                     returned |-> returned],
                                    captured(images), idList, numberOfWorkers(idList))} :
         /\ ids' = idList
         /\ closure' = captured(images)
         /\ images' = spawned.st.images
         /\ index' = spawned.st.index
         /\ claims' = spawned.st.claims
         /\ returned' = spawned.st.returned
         /\ workers' = spawned.workers
         /\ batch' = promiseAll(spawned.workers)
         /\ processing' = (promiseAll(spawned.workers) # "resolved")
  /\ UNCHANGED <<nextId, manual, probe>>
  /\ UNCHANGED editVars

\* the metadata read of a worker's call settles
WorkerExtractReturn(w) ==
  /\ w \in DOMAIN workers
  /\ workers[w].run.pc = "extract"
  /\ \E r \in {processImageAfterExtract(images, workers[w].run)} :
       /\ images' = r.images
       /\ workers' = [workers EXCEPT ![w].run = r.run]
  /\ UNCHANGED <<nextId, manual, returned, probe>>
  /\ UNCHANGED editVars
  /\ UNCHANGED <<processing, batch, closure, ids, index, claims>>

\* the detection call of a worker's call settles
WorkerDetectReturn(w, response) ==
  /\ w \in DOMAIN workers
  /\ workers[w].run.pc = "detect"
  /\ \E r \in {processImageAfterDetect(images, workers[w].run, response)} :
       /\ images' = r.images
       /\ workers' = [workers EXCEPT ![w].run = r.run]
  /\ UNCHANGED <<nextId, manual, returned, probe>>
  /\ UNCHANGED editVars
  /\ UNCHANGED <<processing, batch, closure, ids, index, claims>>

\* the description call of a worker's call settles: processImage returns
\* and the worker goes round its loop, or processImage throws and the
\* worker's promise rejects; then Promise.all settles if it can, and on its
\* resolution processAllImages clears the flag
WorkerDescribeReturn(w, response, now) ==
  /\ w \in DOMAIN workers
  /\ workers[w].run.pc = "describe"
  /\ \E r \in {processImageAfterDescribe(images, workers[w].run, response, now)} :
       IF r.run.pc = "threw"
       THEN /\ workers' = [workers EXCEPT ![w] = [status |-> "rejected", run |-> r.run]]
            /\ batch' = "rejected"
            /\ UNCHANGED <<images, index, claims, returned, processing>>
       ELSE \E looped \in {workerLoop([images |-> r.images, index |-> index,
                                       claims |-> claims,
                                       returned |-> Returned(r.run, r.peopleNames,
                                                             r.suggestedName)],
                                      closure, ids)} :
              LET ws == [workers EXCEPT ![w] = looped.worker]
              IN  /\ workers' = ws
                  /\ images' = looped.st.images
                  /\ index' = looped.st.index
                  /\ claims' = looped.st.claims
                  /\ returned' = looped.st.returned
                  /\ batch' = IF batch = "pending" THEN promiseAll(ws) ELSE batch
                  /\ processing' = IF batch = "pending" /\ promiseAll(ws) = "resolved"
                                   THEN FALSE ELSE processing
  /\ UNCHANGED <<nextId, manual, closure, ids, probe>>
  /\ UNCHANGED editVars

\* embeddedTagsService.getPeopleNamesForFilename, from the extraction result
getPeopleNamesForFilename(result) == embeddedPeopleNames(result.people)

\* the normalization of STEP 4 and of getPeopleNamesForFilename on one name
NormalizeName ==
  /\ probe.kind = "name"
  /\ ~probe.done
  /\ probe' = [probe EXCEPT
                 !.done = TRUE,
                 !.names = embeddedPeopleNames(<<EmbeddedPerson(probe.name, <<>>,
                                                              "other_xmp")>>)]
  /\ UNCHANGED <<images, nextId, manual, returned>>
  /\ UNCHANGED editVars
  /\ UNCHANGED batchVars

\* embeddedTagsService.extractPeopleTags and getPeopleNamesForFilename on one file
ExtractTags ==
  /\ probe.kind = "file"
  /\ ~probe.done
  /\ \E result \in {extractPeopleTags([metadata |-> probe.metadata])} :
       probe' = [probe EXCEPT !.done = TRUE,
                              !.result = result,
                              !.names = getPeopleNamesForFilename(result)]
  /\ UNCHANGED <<images, nextId, manual, returned>>
  /\ UNCHANGED editVars
  /\ UNCHANGED batchVars

\* the Edit button of a processed photo's card: startEditing(index, image.suggestedName)
startEditing(cardIndex) ==
  /\ cardIndex \in 0..(Len(images) - 1)
  /\ editingIndex # cardIndex
  /\ images[cardIndex + 1].processed
  /\ editingIndex' = cardIndex
  /\ editingName' = images[cardIndex + 1].suggestedName
  /\ editingId' = images[cardIndex + 1].id
  /\ UNCHANGED <<images, nextId, manual, returned, probe>>
  /\ UNCHANGED batchVars

\* the user types in the edit field, shown on the card at editingIndex
TypeName(text) ==
  /\ editingIndex \in 0..(Len(images) - 1)
  /\ editingName' = text
  /\ UNCHANGED <<images, nextId, manual, returned, probe, editingIndex, editingId>>
  /\ UNCHANGED batchVars

\* the Save button or the Enter key of the edit field
saveEdit ==
  /\ editingIndex \in 0..(Len(images) - 1)
  /\ images' = [i \in DOMAIN images |->
                  IF i - 1 = editingIndex
                  THEN Merge(images[i], [suggestedName |-> editingName])
                  ELSE images[i]]
  /\ editingIndex' = null
  /\ editingName' = <<>>
  /\ editingId' = 0
  /\ UNCHANGED <<nextId, manual, returned, probe>>
  /\ UNCHANGED batchVars

\* the Cancel button of the edit field
cancelEdit ==
  /\ editingIndex \in 0..(Len(images) - 1)
  /\ editingIndex' = null
  /\ editingName' = <<>>
  /\ editingId' = 0
  /\ UNCHANGED <<images, nextId, manual, returned, probe>>
  /\ UNCHANGED batchVars

\* STEP 4 of processImage on one date, list of people names and description
BuildFilename ==
  /\ probe.kind = "filename"
  /\ ~probe.done
  /\ probe' = [probe EXCEPT
                 !.done = TRUE,
                 !.suggestedName = buildFilename(probe.photoDate, probe.peopleNames,
                                                 probe.name)]
  /\ UNCHANGED <<images, nextId, manual, returned>>
  /\ UNCHANGED editVars
  /\ UNCHANGED batchVars

(***************************************************************************)
(* Specifications.                                                         *)
(*                                                                         *)
(* Spec: the user uploads untagged and already renamed files, removes      *)
(* photos, and clicks Process All and (one call at a time) the Process     *)
(* buttons; the detection service answers well or with a malformed payload.*)
(***************************************************************************)
LeanFiles == {PlainFile, RenamedFile}
PipelineFiles == {TaggedFile, SymbolFile, PlainFile, UnreadableFile, RenamedFile}
UntaggedFiles == {PlainFile, UnreadableFile, NoXmpFile, ForeignXmpFile}
LeanDetectResponses == {NoneDetected, NamelessDetected}
LeanDescribeResponses == {Described}

Next ==
  \/ \E file \in LeanFiles : Upload(file, MaxUploads)
  \/ \E imageId \in shown : RemoveImage(imageId)
  \/ \E imageId \in shown : ~manualPending /\ ClickProcess(imageId)
  \/ \E imageId \in DOMAIN manual : ManualExtractReturn(imageId)
  \/ \E imageId \in DOMAIN manual, response \in LeanDetectResponses :
       ManualDetectReturn(imageId, response)
  \/ \E imageId \in DOMAIN manual, response \in LeanDescribeResponses,
        now \in Timestamps :
       ManualDescribeReturn(imageId, response, now)
  \/ ClickProcessAll
  \/ \E w \in DOMAIN workers : WorkerExtractReturn(w)
  \/ \E w \in DOMAIN workers, response \in LeanDetectResponses :
       WorkerDetectReturn(w, response)
  \/ \E w \in DOMAIN workers, response \in LeanDescribeResponses, now \in Timestamps :
       WorkerDescribeReturn(w, response, now)

Spec == Init /\ [][Next]_vars

(***************************************************************************)
(* SpecPipeline: files of every kind and every response of the two         *)
(* services, each photo processed by its Process button.                   *)
(***************************************************************************)
NextPipeline ==
  \/ \E file \in PipelineFiles : Upload(file, MaxUploads)
  \/ \E imageId \in shown : ClickProcess(imageId)
  \/ \E imageId \in DOMAIN manual : ManualExtractReturn(imageId)
  \/ \E imageId \in DOMAIN manual, response \in DetectResponses :
       ManualDetectReturn(imageId, response)
  \/ \E imageId \in DOMAIN manual, response \in DescribeResponses, now \in Timestamps :
       ManualDescribeReturn(imageId, response, now)

SpecPipeline == Init /\ [][NextPipeline]_vars

(***************************************************************************)
(* SpecUntagged: files without readable people tags, each photo processed  *)
(* by its Process button.                                                  *)
(***************************************************************************)
NextUntagged ==
  \/ \E file \in UntaggedFiles : Upload(file, MaxUploads)
  \/ \E imageId \in shown : ClickProcess(imageId)
  \/ \E imageId \in DOMAIN manual : ManualExtractReturn(imageId)
  \/ \E imageId \in DOMAIN manual, response \in LeanDetectResponses :
       ManualDetectReturn(imageId, response)
  \/ \E imageId \in DOMAIN manual, response \in LeanDescribeResponses,
        now \in Timestamps :
       ManualDescribeReturn(imageId, response, now)

SpecUntagged == Init /\ [][NextUntagged]_vars

(***************************************************************************)
(* SpecEdit: the user uploads, processes, removes photos and edits the     *)
(* names of processed photos.                                              *)
(***************************************************************************)
EditedNames == {<<"x",".","j","p","g">>}

NextEdit ==
  \/ \E file \in LeanFiles : Upload(file, MaxUploads)
  \/ \E imageId \in shown : RemoveImage(imageId)
  \/ \E imageId \in shown : ~manualPending /\ ClickProcess(imageId)
  \/ \E imageId \in DOMAIN manual : ManualExtractReturn(imageId)
  \/ \E imageId \in DOMAIN manual : ManualDetectReturn(imageId, NoneDetected)
  \/ \E imageId \in DOMAIN manual, now \in Timestamps :
       ManualDescribeReturn(imageId, Described, now)
  \/ \E cardIndex \in 0..(Len(images) - 1) : startEditing(cardIndex)
  \/ \E text \in EditedNames : TypeName(text)
  \/ saveEdit
  \/ cancelEdit

SpecEdit == Init /\ [][NextEdit]_vars

(***************************************************************************)
(* SpecBatch: more photos than workers, processed by Process All only.     *)
(***************************************************************************)
NextBatch ==
  \/ \E file \in LeanFiles : Upload(file, MaxPhotos)
  \/ ClickProcessAll
  \/ \E w \in DOMAIN workers : WorkerExtractReturn(w)
  \/ \E w \in DOMAIN workers, response \in LeanDetectResponses :
       WorkerDetectReturn(w, response)
  \/ \E w \in DOMAIN workers, response \in LeanDescribeResponses, now \in Timestamps :
       WorkerDescribeReturn(w, response, now)

SpecBatch == Init /\ [][NextBatch]_vars

\* SpecBatch where every external call that is awaited settles
FairBatch ==
  /\ SpecBatch
  /\ WF_vars(\E w \in DOMAIN workers : WorkerExtractReturn(w))
  /\ WF_vars(\E w \in DOMAIN workers, response \in LeanDetectResponses :
               WorkerDetectReturn(w, response))
  /\ WF_vars(\E w \in DOMAIN workers, response \in LeanDescribeResponses,
                now \in Timestamps :
               WorkerDescribeReturn(w, response, now))

(***************************************************************************)
(* SpecPool: more untagged photos than workers, processed by Process All   *)
(* and (one call at a time) by the Process buttons; every call succeeds.   *)
(***************************************************************************)
NextPool ==
  \/ Upload(PlainFile, MaxPhotos)
  \/ \E imageId \in shown : ~manualPending /\ ClickProcess(imageId)
  \/ \E imageId \in DOMAIN manual : ManualExtractReturn(imageId)
  \/ \E imageId \in DOMAIN manual : ManualDetectReturn(imageId, NoneDetected)
  \/ \E imageId \in DOMAIN manual, now \in Timestamps :
       ManualDescribeReturn(imageId, Described, now)
  \/ ClickProcessAll
  \/ \E w \in DOMAIN workers : WorkerExtractReturn(w)
  \/ \E w \in DOMAIN workers : WorkerDetectReturn(w, NoneDetected)
  \/ \E w \in DOMAIN workers, now \in Timestamps :
       WorkerDescribeReturn(w, Described, now)

SpecPool == Init /\ [][NextPool]_vars

(***************************************************************************)
(* SpecServices: the functions of embeddedTagsService on their own, on     *)
(* every name and every XMP text of the bounds.                            *)
(***************************************************************************)
NextServices ==
  \/ NormalizeName
  \/ ExtractTags
  \/ BuildFilename

SpecServices == InitProbe /\ [][NextServices]_vars

(***************************************************************************)
(* Properties.                                                             *)
(***************************************************************************)
\* the calls of processImage that have not returned: those of the Process
\* buttons and those the workers await
manualRuns == {manual[id] : id \in DOMAIN manual}
workerRuns == {workers[w].run : w \in {v \in DOMAIN workers : workers[v].status # "ended"}}
inFlight == manualRuns \cup workerRuns

\* C1: a call of processImage whose extraction returned a non-empty people
\* list calls the detection service zero times, also when every embedded
\* name normalizes to the empty string and no name reaches the filename.
C1_EmbeddedPeopleSkipDetection ==
  /\ \A run \in inFlight :
       Len(run.embeddedPeople) > 0 => run.detectCalls = 0 /\ run.pc # "detect"
  /\ Len(returned.embeddedPeople) > 0 => returned.detectCalls = 0

\* a call returned for the file whose only embedded name is "!?": the
\* extracted list is non-empty, no name reached the filename, no detection
C1_Witness ==
  /\ returned.originalFile = SymbolFile.key
  /\ returned.extracted
  /\ Len(returned.embeddedPeople) > 0
  /\ returned.peopleNames = <<>>
  /\ returned.suggestedName # <<>>
  /\ returned.detectCalls = 0

\* C2: a call of processImage whose extraction yields an empty people list,
\* also when the extraction itself failed, calls the detection service
\* exactly once: not zero times, and never again.
C2_NoEmbeddedPeopleDetectOnce ==
  /\ \A run \in inFlight :
       run.extracted /\ Len(run.embeddedPeople) = 0 => run.detectCalls = 1
  /\ returned.extracted /\ Len(returned.embeddedPeople) = 0 => returned.detectCalls = 1

\* a call returned for the file whose metadata could not be read, after one
\* detection call
C2_Witness ==
  /\ returned.originalFile = UnreadableFile.key
  /\ returned.extracted
  /\ Len(returned.embeddedPeople) = 0
  /\ returned.detectCalls = 1

\* the detector's entries that are not of low confidence, and the place of
\* one of them among them
notLow(items) == {i \in DOMAIN items : items[i].confidence # "low"}
rank(kept, i) == Cardinality({j \in kept : j <= i})

\* C3: when detection is used, the people names of the filename are exactly
\* the detector's entries of high or medium confidence, in the detector's
\* order, and no entry of low confidence has its token in the filename.
C3_OnlyConfidentDetectionsInOrder ==
  (returned.extracted /\ Len(returned.embeddedPeople) = 0
     /\ returned.detectedPeople.isArray)
  => LET items == returned.detectedPeople.items
         kept == notLow(items)
     IN  /\ Len(returned.peopleNames) = Cardinality(kept)
         /\ \A i \in kept :
              returned.peopleNames[rank(kept, i)] = detectedName(items[i])
         /\ \A i \in DOMAIN items \ kept :
              items[i].hasName => ~Contains(returned.suggestedName, detectedName(items[i]))

\* a call returned after the detector named Ann (high), Bob (low) and
\* Cy D (medium), with ann and cy_d in the filename
C3_Witness ==
  /\ returned.extracted
  /\ Len(returned.embeddedPeople) = 0
  /\ returned.detectedPeople = ThreeDetected
  /\ returned.peopleNames = << <<"a","n","n">>, <<"c","y","_","d">> >>
  /\ Contains(returned.suggestedName, <<"a","n","n","_","a","n","d","_","c","y","_","d">>)

\* C4: no id of a batch is claimed twice, and when the batch completes each
\* of its ids has been claimed by exactly one worker and is processed.
C4_BatchClaimsEachIdOnce ==
  /\ \A id \in DOMAIN claims : claims[id] <= 1
  /\ batch = "resolved" =>
       \A id \in Range(ids) :
         /\ claims[id] = 1
         /\ found(images, id)
         /\ find(images, id).processed

\* a batch over more ids than there are workers has completed
C4_Witness ==
  /\ batch = "resolved"
  /\ Len(ids) > CONCURRENCY_LIMIT
  /\ Len(workers) = CONCURRENCY_LIMIT
  /\ \A id \in Range(ids) : claims[id] = 1

\* the number of calls of processImage in flight for a photo
runsOf(imageId) ==
  Cardinality({id \in DOMAIN manual : id = imageId /\ manual[id].pc # "threw"})
    + Cardinality({w \in DOMAIN workers :
                     workers[w].status = "running" /\ workers[w].run.imageId = imageId})

\* C5: there are never two calls of processImage for the same photo id:
\* at most one is in flight for a photo, and none for a processed photo.
C5_OneRunPerPhoto ==
  \A i \in DOMAIN images :
    /\ runsOf(images[i].id) <= 1
    /\ images[i].processed => runsOf(images[i].id) = 0

\* C6: once the record of a photo has processed = true it never again shows
\* processing, tagProcessing or peopleProcessing, and its suggestedName is
\* not overwritten.
C6_ProcessedIsFinal ==
  [][\A i \in DOMAIN images : images[i].processed =>
       \A j \in DOMAIN images' : images'[j].id = images[i].id =>
         /\ images'[j].processed
         /\ ~images'[j].processing
         /\ ~images'[j].tagProcessing
         /\ ~images'[j].peopleProcessing
         /\ images'[j].suggestedName = images[i].suggestedName]_vars

C8_AtMostThreeProcessing ==
  Cardinality({i \in DOMAIN images : images[i].processing}) <= CONCURRENCY_LIMIT

\* C8, amended: at most CONCURRENCY_LIMIT calls of processImage started by
\* the workers of Process All are in flight at the same time, on as many
\* photos.
C8_AtMostThreeWorkerRuns ==
  /\ Cardinality({w \in DOMAIN workers : workers[w].status = "running"}) <= CONCURRENCY_LIMIT
  /\ Cardinality({run.imageId : run \in workerRuns}) <= CONCURRENCY_LIMIT

\* all the workers of a batch over more ids than workers await a call
C8_Witness ==
  /\ Len(ids) > CONCURRENCY_LIMIT
  /\ Cardinality({w \in DOMAIN workers : workers[w].status = "running"}) = CONCURRENCY_LIMIT
  /\ index < Len(ids)

\* C9: no error leaves processImage: no call made by a Process button
\* throws, and no worker's promise rejects.
C9_NoErrorLeavesProcessImage ==
  /\ \A id \in DOMAIN manual : manual[id].pc # "threw"
  /\ \A w \in DOMAIN workers : workers[w].status # "rejected"
  /\ batch # "rejected"

\* C10: when every external call returns, every started batch completes:
\* the processing flag becomes false again and every id of the batch is
\* processed.
C10_BatchCompletes ==
  (batch = "pending") ~>
    (/\ ~processing
     /\ \A id \in Range(ids) : found(images, id) /\ find(images, id).processed)

\* the filenames of a photo without people: its date, "_", and the name the
\* description service gave or a fallback name
withoutPeople(photoDate, originalName) ==
  { photoDate \o <<"_">> \o name :
      name \in {Described.suggestedName}
                 \cup {fallbackName(originalName, now) : now \in Timestamps} }

\* C11: when the detection call fails (network error or non-2xx response)
\* for a photo without embedded tags, the detection result is the empty
\* list, no error leaves processImage, and on return no people name is
\* resolved and the photo is processed with a filename of date and
\* description only.
C11_DetectionFailureStillProcessed ==
  /\ \A run \in inFlight :
       run.detectFailed => run.detectedPeople = EmptyArray /\ run.pc # "threw"
  /\ returned.detectFailed =>
       /\ returned.detectedPeople = EmptyArray
       /\ returned.peopleNames = <<>>
       /\ \A i \in DOMAIN images : images[i].id = returned.imageId =>
            /\ images[i].processed
            /\ ~images[i].processing
            /\ images[i].suggestedName = returned.suggestedName
            /\ images[i].suggestedName
                 \in withoutPeople(images[i].photoDate, images[i].originalName)

\* a call returned after its detection call failed, and its photo is
\* processed with the date and the description as filename
C11_Witness ==
  /\ returned.detectFailed
  /\ returned.detectCalls = 1
  /\ Len(returned.embeddedPeople) = 0
  /\ \E i \in DOMAIN images :
       /\ images[i].id = returned.imageId
       /\ images[i].processed
       /\ images[i].suggestedName = PhotoDate \o <<"_">> \o Described.suggestedName

\* the fallback names of a photo: processed_<timestamp>.<extension>, with
\* the extension of the original name
fallbackNames(originalName) ==
  { <<"p","r","o","c","e","s","s","e","d","_">> \o now \o <<".">>
      \o lastDotSegment(originalName) : now \in Timestamps }

\* C12: when the description call fails (network error, non-2xx response
\* or a response without suggestedName), no error leaves processImage, and
\* on return the photo is processed with a filename that ends in the
\* fallback name processed_<timestamp>.<extension>.
C12_DescriptionFailureStillProcessed ==
  /\ \A run \in inFlight : run.describeFailed => run.pc # "threw"
  /\ returned.describeFailed =>
       \A i \in DOMAIN images : images[i].id = returned.imageId =>
         /\ images[i].processed
         /\ images[i].suggestedName = returned.suggestedName
         /\ \E name \in fallbackNames(images[i].originalName) :
              /\ Len(name) <= Len(images[i].suggestedName)
              /\ SubSeq(images[i].suggestedName,
                        Len(images[i].suggestedName) - Len(name) + 1,
                        Len(images[i].suggestedName)) = name

\* a token in normal form: not empty, only characters of [a-z0-9_], no two
\* consecutive underscores, no underscore at either end
isNormalForm(token) ==
  /\ token # <<>>
  /\ \A i \in DOMAIN token : IsNameChar(token[i])
  /\ \A i \in 1..(Len(token) - 1) : ~(token[i] = "_" /\ token[i + 1] = "_")
  /\ token[1] # "_"
  /\ token[Len(token)] # "_"

\* C13: every token of the people names handed to filename assembly, from
\* embedded tags or from the detector, is in normal form.
C13_ResolvedNamesNormalized ==
  \A i \in DOMAIN returned.peopleNames : isNormalForm(returned.peopleNames[i])

C15_AlreadyRenamedSkipped ==
  /\ \A run \in inFlight : run.originalFile # RenamedFile.key
  /\ returned.originalFile = RenamedFile.key =>
       /\ ~returned.extracted
       /\ returned.detectCalls = 0
       /\ returned.detectedPeople = EmptyArray
       /\ returned.suggestedName = RenamedFile.name
       /\ \A i \in DOMAIN images : images[i].id = returned.imageId =>
            /\ images[i].processed /\ ~images[i].processing
            /\ images[i].suggestedName = images[i].originalName

C15_Witness ==
  /\ returned.originalFile = RenamedFile.key
  /\ \E i \in DOMAIN images :
       /\ images[i].id = returned.imageId
       /\ images[i].isAlreadyRenamed
       /\ images[i].processed
       /\ images[i].suggestedName = RenamedFile.name

\* the entries the three parsers find in the probed XMP, in scan order
scanned ==
  parseMicrosoftPeopleTags(probe.metadata.xmp)
    \o parseMWGRegions(probe.metadata.xmp)
    \o parseIPTCPersonTags(probe.metadata.xmp)

\* the positions of scanned whose name, compared without case, is not at an
\* earlier position
firstSeen ==
  {i \in DOMAIN scanned :
     \A j \in 1..(i - 1) : toLowerCase(scanned[j].name) # toLowerCase(scanned[i].name)}

\* C16: the people list of an extraction is the Microsoft, MWG and IPTC
\* entries in that order without the entries whose name, compared without
\* case, already occurred: the k-th person is the k-th first-seen entry, with
\* its source and bounding box.
C16_FirstSeenAcrossConventions ==
  (probe.kind = "file" /\ probe.done /\ probe.metadata.parse = "object"
     /\ probe.metadata.hasXmp) =>
    /\ Len(probe.result.people) = Cardinality(firstSeen)
    /\ \A k \in DOMAIN probe.result.people :
         \E i \in firstSeen :
           /\ Cardinality({j \in firstSeen : j <= i}) = k
           /\ probe.result.people[k] = scanned[i]

C16_Witness ==
  /\ probe.kind = "file" /\ probe.done
  /\ Len(scanned) = 2
  /\ scanned[1].source = "windows_gallery" /\ scanned[2].source = "adobe_bridge"
  /\ scanned[1].name # scanned[2].name
  /\ probe.result.people = <<EmbeddedPerson(Al, ValidRectangle, "windows_gallery")>>

\* C17: no two people of an extraction normalize to the same filename token,
\* and the names built for the filename from embedded tags have no token twice.
C17_NoDuplicateTokens ==
  (probe.kind = "file" /\ probe.done) =>
    /\ \A i, j \in DOMAIN probe.result.people :
         i # j => normalizeEmbeddedName(probe.result.people[i].name)
                    # normalizeEmbeddedName(probe.result.people[j].name)
    /\ \A i, j \in DOMAIN probe.names : i # j => probe.names[i] # probe.names[j]

\* the name texts the parsers read in the probed XMP: per Microsoft region the
\* first name field present, per MWG region its Name, per PersonInImage element
\* its text, and the list items of the first such element
rawNames ==
  LET xmp == probe.metadata.xmp
      msName(region) ==
        IF region.PersonDisplayName # <<>> THEN region.PersonDisplayName
        ELSE IF region.Name # <<>> THEN region.Name ELSE region.Person
  IN  (IF xmp.MP.matches
       THEN {msName(xmp.MP.regions[i]) : i \in DOMAIN xmp.MP.regions} ELSE {})
        \cup (IF xmp.mwg.matches
              THEN {xmp.mwg.regions[i].Name : i \in DOMAIN xmp.mwg.regions} ELSE {})
        \cup {xmp.iptc[i].text : i \in DOMAIN xmp.iptc}
        \cup (IF xmp.iptc # <<>> THEN Range(Head(xmp.iptc).items) ELSE {})

\* name is raw without the white space at its two ends
isTrimmed(name, raw) ==
  /\ name # <<>>
  /\ name[1] \notin WhiteSpace /\ name[Len(name)] \notin WhiteSpace
  /\ \E i \in DOMAIN raw :
       /\ i + Len(name) - 1 <= Len(raw)
       /\ SubSeq(raw, i, i + Len(name) - 1) = name
       /\ \A k \in DOMAIN raw : (k < i \/ k > i + Len(name) - 1) => raw[k] \in WhiteSpace

C19_NormalizationIdempotent ==
  (probe.kind = "name" /\ probe.done) =>
    /\ Len(probe.names) <= 1
    /\ \A i \in DOMAIN probe.names :
         /\ isNormalForm(probe.names[i])
         /\ normalizeEmbeddedName(probe.names[i]) = probe.names[i]

C19_Witness ==
  /\ probe.kind = "name" /\ probe.done
  /\ probe.name = <<"A", " ", "!">>
  /\ probe.names = << <<"a">> >>

\* C20: a photo with one named Microsoft region whose Rectangle does not split
\* into exactly four numeric components gives one person with the name of the
\* region and no bounding box; four numeric components give the box.
C20_BadRectangleKeepsPerson ==
  (probe.kind = "file" /\ probe.done /\ probe.metadata.parse = "object"
     /\ probe.metadata.hasXmp /\ probe.metadata.xmp.MP.matches
     /\ Len(probe.metadata.xmp.MP.regions) = 1) =>
    LET region == probe.metadata.xmp.MP.regions[1]
        fourNumbers == /\ Len(region.Rectangle) = 4
                       /\ Range(region.Rectangle) \subseteq NumericComponents
    IN  /\ Len(probe.result.people) >= 1
        /\ probe.result.people[1].source = "windows_gallery"
        /\ isTrimmed(probe.result.people[1].name, region.PersonDisplayName)
        /\ probe.result.people[1].boundingBox =
             (IF fourNumbers THEN region.Rectangle ELSE <<>>)

C20_Witness ==
  /\ probe.kind = "file" /\ probe.done
  /\ Len(probe.metadata.xmp.MP.regions) = 1
  /\ probe.metadata.xmp.MP.regions[1].Rectangle = <<"0.1", "0.1", "0.1", "0.1", "0.1">>
  /\ probe.result.people = <<EmbeddedPerson(Al, <<>>, "windows_gallery")>>
  /\ probe.result.hasEmbeddedTags

\* the probed XMP with the containers of the other two conventions taken out
onlyMP == [probe.metadata.xmp EXCEPT !.mwg = NoContainer, !.iptc = <<>>]
onlyMWG == [probe.metadata.xmp EXCEPT !.MP = NoContainer, !.iptc = <<>>]
onlyIPTC == [probe.metadata.xmp EXCEPT !.MP = NoContainer, !.mwg = NoContainer]

\* what each convention gives when it is alone in the text
alone(source) ==
  IF source = "windows_gallery" THEN parseMicrosoftPeopleTags(onlyMP)
  ELSE IF source = "adobe_bridge" THEN parseMWGRegions(onlyMWG)
  ELSE parseIPTCPersonTags(onlyIPTC)

withoutTags(metadata) ==
  \/ metadata.parse \in {"throws", "nothing"}
  \/ ~metadata.hasXmp
  \/ metadata.xmp = NoXmp

\* C22: on a photo without readable people tags extractPeopleTags returns no
\* person and hasEmbeddedTags false, and a call of processImage on such a photo
\* publishes that result and goes on to call the detection service once.
C22_ExtractionTotal ==
  /\ (probe.kind = "file" /\ probe.done /\ withoutTags(probe.metadata)) =>
       probe.result.people = <<>> /\ ~probe.result.hasEmbeddedTags
  /\ \A run \in inFlight :
       (run.extracted /\ withoutTags(FileOf(run.originalFile).metadata)) =>
         /\ run.embeddedPeople = <<>>
         /\ run.detectCalls = 1
         /\ \A i \in DOMAIN images : images[i].id = run.imageId =>
              images[i].embeddedPeople = <<>> /\ ~images[i].hasEmbeddedTags
  /\ (returned.extracted /\ withoutTags(FileOf(returned.originalFile).metadata)) =>
       returned.embeddedPeople = <<>> /\ returned.detectCalls = 1

C22_Witness ==
  \E run \in inFlight :
    /\ run.originalFile = UnreadableFile.key
    /\ run.pc = "detect" /\ run.detectCalls = 1
    /\ \E i \in DOMAIN images :
         images[i].id = run.imageId /\ ~images[i].tagProcessing
           /\ images[i].peopleProcessing

\* the stages of a call of processImage in the order the claim gives
StageOrder ==
  { <<"extract", "detect">>, <<"extract", "describe">>, <<"detect", "describe">>,
    <<"describe", "returned">>, <<"describe", "threw">> }

\* what the record of a photo shows while a call for it waits at a stage
stagePublished(run, image) ==
  /\ run.pc = "extract" =>
       /\ ~run.extracted /\ run.detectCalls = 0
       /\ image.tagProcessing /\ ~image.peopleProcessing
       /\ image.processing /\ ~image.processed
  /\ run.pc = "detect" =>
       /\ run.extracted /\ run.detectCalls = 1
       /\ ~image.tagProcessing
       /\ image.embeddedPeople = run.embeddedPeople
       /\ image.hasEmbeddedTags = (Len(run.embeddedPeople) > 0)
       /\ image.peopleProcessing
       /\ image.processing /\ ~image.processed
  /\ run.pc = "describe" =>
       /\ run.extracted
       /\ ~image.tagProcessing /\ ~image.peopleProcessing
       /\ image.embeddedPeople = run.embeddedPeople
       /\ run.detectCalls = 1 => image.detectedPeople = run.detectedPeople
       /\ image.processing /\ ~image.processed
       /\ image.suggestedName = <<>>

\* C23: a call of processImage goes through its stages in the order extract,
\* detect (when it happens), describe, and then returns: the extraction result
\* is in the record while the detection call is awaited, the detection result
\* while the description call is awaited, and processed is published only when
\* the description call has returned.
C23_StageOrder ==
  /\ [](\A id \in DOMAIN manual : \A i \in DOMAIN images :
          images[i].id = id => stagePublished(manual[id], images[i]))
  /\ [][\A id \in DOMAIN manual :
          /\ id \in DOMAIN manual' =>
               \/ manual'[id].pc = manual[id].pc
               \/ <<manual[id].pc, manual'[id].pc>> \in StageOrder
          /\ id \notin DOMAIN manual' => manual[id].pc = "describe"
          /\ \A i \in DOMAIN images' :
               (images'[i].id = id /\ images'[i].processed
                  /\ \E j \in DOMAIN images : images[j].id = id /\ ~images[j].processed)
                 => manual[id].pc = "describe" /\ id \notin DOMAIN manual']_vars

C23_Witness ==
  /\ returned.extracted /\ returned.detectCalls = 1
  /\ returned.detectedPeople = ThreeDetected
  /\ \E i \in DOMAIN images :
       /\ images[i].id = returned.imageId
       /\ images[i].processed
       /\ images[i].detectedPeople = ThreeDetected
       /\ images[i].suggestedName = returned.suggestedName

assembled(photoDate, peopleNames, description) ==
  LET and == <<"_","a","n","d","_">>
      RECURSIVE upTo(_)
      upTo(k) == IF k = 1 THEN peopleNames[1]
                 ELSE upTo(k - 1) \o and \o peopleNames[k]
  IN  (IF photoDate = <<>> THEN <<>> ELSE photoDate \o <<"_">>)
        \o (IF peopleNames = <<>> THEN <<>> ELSE upTo(Len(peopleNames)) \o <<"_">>)
        \o description

\* C25: the filename is the date (when present), the people names joined by
\* "_and_" (when there is one), and the description without its extension,
\* joined by "_", followed by the extension of the description.
C25_FilenameAssembly ==
  /\ (probe.kind = "filename" /\ probe.done) =>
       probe.suggestedName = assembled(probe.photoDate, probe.peopleNames, probe.name)
  /\ (returned.extracted /\ returned.suggestedName # <<>>) =>
       \E description \in {Described.suggestedName}
                            \cup fallbackNames(FileOf(returned.originalFile).name) :
         returned.suggestedName =
           assembled(FileOf(returned.originalFile).photoDate, returned.peopleNames,
                     description)

C25_Witness ==
  /\ probe.kind = "filename" /\ probe.done
  /\ probe.photoDate = <<"2","0","2","4","_","0","3","_","1","5">>
  /\ probe.suggestedName =
       <<"2","0","2","4","_","0","3","_","1","5","_","m","o","m","_","a","n","d","_",
         "s","a","r","a","h","_","c","a","k","e",".","j","p","g">>

\* the ids of the store, in order
idsOf(imgs) == [i \in DOMAIN imgs |-> imgs[i].id]

\* C26: a step in which calls of processImage publish leaves the ids of the
\* store and their order as they are and changes only the records of the
\* photos those calls are for; the ids change only by an upload, which adds a
\* new id at the end, or by removeImage, which takes one id out, so a photo
\* removed while its call is in flight does not come back.
C26_PublicationsTouchOwnRecord ==
  [][LET manualActing ==
           {id \in DOMAIN manual \cup DOMAIN manual' :
              \/ id \notin DOMAIN manual
              \/ id \notin DOMAIN manual'
              \/ manual'[id] # manual[id]}
         workerActing ==
           {workers[w].run.imageId :
              w \in {v \in DOMAIN workers :
                       v \notin DOMAIN workers' \/ workers'[v] # workers[v]}}
             \cup {workers'[w].run.imageId :
                     w \in {v \in DOMAIN workers' :
                              v \notin DOMAIN workers \/ workers'[v] # workers[v]}}
         claimed ==
           {id \in DOMAIN claims' : id \notin DOMAIN claims \/ claims'[id] # claims[id]}
         acting == manualActing \cup workerActing \cup claimed
                     \cup (IF returned' # returned THEN {returned'.imageId} ELSE {})
     IN  /\ \/ idsOf(images') = idsOf(images)
            \/ /\ idsOf(images') = Append(idsOf(images), nextId)
               /\ nextId' = nextId + 1
               /\ \A i \in DOMAIN images : images'[i] = images[i]
            \/ \E id \in Range(idsOf(images)) :
                 images' = SelectSeq(images, LAMBDA img : img.id # id)
         /\ idsOf(images') = idsOf(images) =>
              \A i \in DOMAIN images :
                images'[i] # images[i] => images[i].id \in acting]_vars

C26_Witness ==
  /\ returned.extracted
  /\ returned.gone
  /\ returned.suggestedName # <<>>
  /\ Len(images) > 0
  /\ \A i \in DOMAIN images : images[i].id # returned.imageId /\ ~images[i].processed
                                /\ ~images[i].processing

\* C27: a photo that is processed and not processing has neither tagProcessing
\* nor peopleProcessing set, and peopleProcessing is never set on a photo whose
\* published embeddedPeople list is not empty.
C27_ProgressFlagsConsistent ==
  \A i \in DOMAIN images :
    /\ (images[i].processed /\ ~images[i].processing) =>
         ~images[i].tagProcessing /\ ~images[i].peopleProcessing
    /\ Len(images[i].embeddedPeople) > 0 => ~images[i].peopleProcessing

\* C28: saveEdit changes the suggestedName of the photo startEditing was called
\* for and of no other photo.
C28_SaveEditWritesEditedPhoto ==
  [][(editingIndex # null /\ editingIndex' = null) =>
       \A i \in DOMAIN images :
         images'[i].suggestedName # images[i].suggestedName =>
           images[i].id = editingId]_vars

\* a step of processAllImages or of one of its workers
batchStep == <<ids, index, workers, claims>>' # <<ids, index, workers, claims>>

\* C29: the id list of a batch is taken once, when no batch runs, as the ids
\* of the photos that are unprocessed at that moment, in their order; the
\* workers claim ids of that list only, and a step of the batch changes no
\* record of a photo outside the list (one uploaded later, or one that was
\* processed already).
C29_BatchWorksOnSnapshot ==
  /\ [](DOMAIN claims = Range(ids))
  /\ [][/\ ids' # ids =>
             /\ ~processing
             /\ ids' = idsOf(SelectSeq(images, LAMBDA img : ~img.processed))
        /\ batchStep =>
             /\ idsOf(images') = idsOf(images)
             /\ \A i \in DOMAIN images :
                  images'[i] # images[i] => images[i].id \in Range(ids')]_vars

\* while a batch waits for its workers, with one of its photos done, the
\* store holds an unprocessed photo that is not of the batch (uploaded since
\* the batch started) and a processed photo that the batch never claimed
C29_Witness ==
  /\ processing
  /\ batch = "pending"
  /\ \E id \in Range(ids) :
       claims[id] = 1 /\ found(images, id) /\ find(images, id).processed
  /\ \E i \in DOMAIN images : images[i].id \notin Range(ids) /\ ~images[i].processed
  /\ \E i \in DOMAIN images : images[i].id \notin Range(ids) /\ images[i].processed

\* the workers of the pool that have not ended and have not rejected
alive(ws) == {w \in DOMAIN ws : ws[w].status = "running"}

\* C30: there is one worker pool at a time: a pool has at most
\* min(CONCURRENCY_LIMIT, N) workers for its N ids, no worker is alive while
\* the processing flag is false, and Process All starts a pool (with its own
\* id list and cursor) only when the flag is false and no worker of the
\* previous pool is alive.
C30_OneBatchAtATime ==
  /\ [](/\ Len(workers) <= Min(CONCURRENCY_LIMIT, Len(ids))
        /\ Cardinality(alive(workers)) <= Min(CONCURRENCY_LIMIT, Len(ids))
        /\ ~processing => alive(workers) = {})
  /\ [][(ids' # ids \/ index' < index) =>
          /\ ~processing
          /\ alive(workers) = {}
          /\ Len(workers') = Min(CONCURRENCY_LIMIT, Len(ids'))]_vars

\* a worker of a pool has rejected and another is still alive: the flag is
\* set, so Process All is disabled although a photo is unprocessed
C30_Witness ==
  /\ processing
  /\ batch = "rejected"
  /\ alive(workers) # {}
  /\ Len(workers) = Min(CONCURRENCY_LIMIT, Len(ids))
  /\ \E i \in DOMAIN images : ~images[i].processed

====
